---- MODULE Spec2Model ----
(***************************************************************************)
(* Model of sensu-check-statuspage-betterstack (src/main.go).              *)
(*                                                                         *)
(* One invocation of the check: sensu's GoCheck runs checkArgs, then       *)
(* executeCheck, which fetches the status page with http.Get, hands the    *)
(* response body to parseInstatusHTML and maps the result to a severity.   *)
(*                                                                         *)
(* The response body is modelled as the sequence of tokens that            *)
(* golang.org/x/net/html's Tokenizer delivers for it, followed by the way  *)
(* the stream ends.  Strings that the program inspects (class values,      *)
(* text) are sequences of atoms: an atom is a run of characters that no    *)
(* pattern of the program splits ("component", "-name", "&nbsp;", ...).    *)
(***************************************************************************)
EXTENDS Integers, Sequences, FiniteSets, TLC

\* Largest number of markup fragments in a fetched document.
MaxFrags == 3

\* sensu.CheckStateOK / CheckStateWarning / CheckStateCritical
CheckStateOK == 0
CheckStateWarning == 1
CheckStateCritical == 2

\* The severity of an invocation that has not returned yet.
NoState == 0 - 1

---------------------------------------------------------------------------
(* Strings                                                                 *)

\* The characters unicode.IsSpace accepts, among the atoms used here.
Space == {" ", "\n", "U+00A0"}

RECURSIVE TrimLeft(_)
TrimLeft(s) ==
    IF s # <<>> /\ Head(s) \in Space THEN TrimLeft(Tail(s)) ELSE s

RECURSIVE TrimRight(_)
TrimRight(s) ==
    IF s # <<>> /\ s[Len(s)] \in Space
    THEN TrimRight(SubSeq(s, 1, Len(s) - 1))
    ELSE s

\* strings.TrimSpace
TrimSpace(s) == TrimRight(TrimLeft(s))

\* html.UnescapeString (and the tokenizer's own unescape): one pass, left to
\* right, replacing each character reference by the character it names.
RECURSIVE UnescapeString(_)
UnescapeString(s) ==
    IF s = <<>> THEN <<>>
    ELSE IF Head(s) = "&nbsp;" THEN <<"U+00A0">> \o UnescapeString(Tail(s))
    ELSE IF Head(s) = "&amp;" THEN <<"&">> \o UnescapeString(Tail(s))
    ELSE IF Head(s) = "&" /\ Len(s) >= 2 /\ s[2] = "nbsp;"
         THEN <<"U+00A0">> \o UnescapeString(SubSeq(s, 3, Len(s)))
    ELSE <<Head(s)>> \o UnescapeString(Tail(s))

\* strings.Contains(s, sub)
Contains(s, sub) ==
    \E i \in 0..(Len(s) - Len(sub)) : SubSeq(s, i + 1, i + Len(sub)) = sub

\* fmt.Sprintf("%s: %s", name, status)
FormatIssue(name, status) == name \o <<": ">> \o status

---------------------------------------------------------------------------
(* Tokens                                                                  *)

Attr(k, v) == [key |-> k, val |-> v]

Tag(type, data, attr) == [type |-> type, data |-> data, attr |-> attr, text |-> <<>>]

Text(t) == [type |-> "Text", data |-> "", attr |-> <<>>, text |-> t]

Comment(t) == [type |-> "Comment", data |-> "", attr |-> <<>>, text |-> t]

ClassDiv(class) == Tag("StartTag", "div", <<Attr("class", class)>>)

EndDiv == Tag("EndTag", "div", <<>>)

Generic == <<"component">>
NameMarker == <<"component", "-name">>
StatusMarker == <<"component", "-status">>

\* <div class="component-name">n</div><div class="component-status">s</div>
Pair(n, s) ==
    <<ClassDiv(NameMarker), Text(n), EndDiv, ClassDiv(StatusMarker), Text(s), EndDiv>>

\* <div class="component-status">s</div>
StatusOnly(s) == <<ClassDiv(StatusMarker), Text(s), EndDiv>>

Fragments ==
    { Pair(<<"Voice">>, <<"MAJOR">>),
      Pair(<<"bunny">>, <<"Operational">>),
      Pair(<<" ", "Edge", "&amp;", "CDN">>, <<"Degraded", "&nbsp;", "Performance", "\n">>),
      StatusOnly(<<"MINOR">>),
      StatusOnly(<<" ", "Operational", "&nbsp;">>),
      <<ClassDiv(Generic)>>,
      <<EndDiv>>,
      <<ClassDiv(StatusMarker)>>,
      <<Tag("StartTag", "span", <<Attr("class", StatusMarker)>>), Text(<<"MAJOR">>),
        Tag("EndTag", "span", <<>>)>>,
      <<Tag("StartTag", "div", <<Attr("id", <<"x">>)>>), Comment(<<"MAJOR">>)>>,
      <<Tag("SelfClosingTag", "div",
            <<Attr("class", <<"Component", "-status">>), Attr("class", StatusMarker)>>)>>,
      <<Tag("SelfClosingTag", "div", <<Attr("id", <<"x">>), Attr("class", <<"row", " ">> \o NameMarker)>>),
        Text(<<"MINOR">>)>> }

RECURSIVE Flatten(_)
Flatten(fs) == IF fs = <<>> THEN <<>> ELSE Head(fs) \o Flatten(Tail(fs))

Documents ==
    { Flatten(fs) : fs \in UNION { [1..n -> Fragments] : n \in 0..MaxFrags } }

\* How the body stream ends: with or without the bytes of an unfinished tag
\* ("<div cla"), and with the error the reader reports at that point.
Endings == [partial : BOOLEAN, readErr : {"EOF", "unexpected EOF"}]

---------------------------------------------------------------------------
(* State                                                                   *)

VARIABLES
    Url,              \* plugin.Url: "" when neither --url nor STATUS_PAGE_URL is set
    pc,               \* position of the invocation
    body,             \* res.Body: the tokens the tokenizer has still to deliver from
    ending,           \* res.Body: how the stream ends
    statusCode,       \* res.StatusCode
    pos,              \* number of tokens of body the tokenizer has delivered
    issues,           \* parseInstatusHTML's local
    insideComponent,  \* parseInstatusHTML's local
    componentName,    \* parseInstatusHTML's local
    componentStatus,  \* parseInstatusHTML's local
    retIssues,        \* parseInstatusHTML's first result
    retErr,           \* parseInstatusHTML's second result ("nil" before it returns)
    state,            \* the severity the invocation signals
    err,              \* the error the invocation returns
    stdout,           \* the lines printed
    fetched,          \* number of http.Get calls
    parsed,           \* number of parseInstatusHTML calls
    closed            \* number of res.Body.Close calls

vars ==
    <<Url, pc, body, ending, statusCode, pos, issues, insideComponent, componentName,
      componentStatus, retIssues, retErr, state, err, stdout, fetched, parsed, closed>>

parserVars == <<pos, issues, insideComponent, componentName, componentStatus>>

resultVars == <<state, err, stdout>>

Init ==
    /\ Url \in {"", "https://status.example.com"}
    /\ pc = "checkArgs"
    /\ body = <<>>
    /\ ending = [partial |-> FALSE, readErr |-> "EOF"]
    /\ statusCode = 0
    /\ pos = 0
    /\ issues = <<>>
    /\ insideComponent = FALSE
    /\ componentName = <<>>
    /\ componentStatus = <<>>
    /\ retIssues = <<>>
    /\ retErr = "nil"
    /\ state = NoState
    /\ err = "nil"
    /\ stdout = <<>>
    /\ fetched = 0
    /\ parsed = 0
    /\ closed = 0

---------------------------------------------------------------------------
(* The tokenizer (html.Tokenizer over res.Body)                            *)

\* The type z.Next() returns with p tokens of b delivered.  Past the last
\* token the tokenizer returns ErrorToken, also when bytes of an unfinished
\* tag remain: they are never delivered as a token.
NextType(b, p) == IF p < Len(b) THEN b[p + 1].type ELSE "ErrorToken"

\* The number of tokens delivered after z.Next().  ErrorToken is sticky.
Advance(b, p) == IF p < Len(b) THEN p + 1 ELSE p

\* z.Err() after an ErrorToken: the error of the reader.
ZErr(e) == e.readErr

\* z.Text() after z.Next() with p tokens delivered before the call: the
\* unescaped text of a text, comment or doctype token, nil otherwise.
NextText(b, p) ==
    IF NextType(b, p) \in {"Text", "Comment", "Doctype"}
    THEN UnescapeString(b[p + 1].text)
    ELSE <<>>

---------------------------------------------------------------------------
(* main / sensu.GoCheck.Execute                                            *)

\* checkArgs with the test of the URL's length inverted.
checkArgsInverted(url) ==
    IF Len(url) # 0
    THEN [state |-> CheckStateWarning,
          err |-> "--url or STATUS_PAGE_URL environment variable is required"]
    ELSE [state |-> CheckStateOK, err |-> "nil"]

\* checkArgs: the severity and the error it returns for a configured URL.
checkArgs(url) ==
    IF Len(url) = 0
    THEN [state |-> CheckStateWarning,
          err |-> "--url or STATUS_PAGE_URL environment variable is required"]
    ELSE [state |-> CheckStateOK, err |-> "nil"]

\* check.Execute(): the validation function runs first, and its error ends
\* the invocation with the severity it returned; executeCheck runs otherwise.
CheckArgs ==
    /\ pc = "checkArgs"
    /\ LET r == checkArgs(Url) IN
         IF r.err # "nil"
         THEN /\ pc' = "done"
              /\ state' = r.state
              /\ err' = r.err
         ELSE /\ pc' = "fetch"
              /\ UNCHANGED <<state, err>>
    /\ UNCHANGED <<Url, body, ending, statusCode, parserVars, retIssues, retErr, stdout,
                   fetched, parsed, closed>>

---------------------------------------------------------------------------
(* executeCheck: the fetch                                                 *)

StatusCodes == {200, 503}

TransportErrors == {"dial tcp: connection refused"}

\* http.Get fails: executeCheck returns Critical and the wrapped error.
FetchFail ==
    /\ pc = "fetch"
    /\ \E e \in TransportErrors :
         /\ state' = CheckStateCritical
         /\ err' = "error fetching status page: " \o e
    /\ fetched' = fetched + 1
    /\ pc' = "done"
    /\ UNCHANGED <<Url, body, ending, statusCode, parserVars, retIssues, retErr, stdout,
                   parsed, closed>>

\* executeCheck with a test of the status code after http.Get: a response
\* other than 200 is reported as a fetch error and its body is not parsed.
FetchOKChecksStatus ==
    /\ pc = "fetch"
    /\ body' \in Documents
    /\ ending' \in Endings
    /\ statusCode' \in StatusCodes
    /\ fetched' = fetched + 1
    /\ pos' = 0
    /\ issues' = <<>>
    /\ insideComponent' = FALSE
    /\ componentName' = <<>>
    /\ componentStatus' = <<>>
    /\ IF statusCode' = 200
       THEN /\ parsed' = parsed + 1
            /\ pc' = "parse"
            /\ UNCHANGED <<resultVars, closed>>
       ELSE /\ parsed' = parsed
            /\ pc' = "done"
            /\ state' = CheckStateCritical
            /\ err' = "error fetching status page: bad status"
            /\ closed' = closed + 1
            /\ stdout' = stdout
    /\ UNCHANGED <<Url, retIssues, retErr>>

\* http.Get returns a response, whatever its status code; executeCheck calls
\* parseInstatusHTML(res.Body), whose locals start at their zero values.
FetchOK ==
    /\ pc = "fetch"
    /\ body' \in Documents
    /\ ending' \in Endings
    /\ statusCode' \in StatusCodes
    /\ fetched' = fetched + 1
    /\ parsed' = parsed + 1
    /\ pos' = 0
    /\ issues' = <<>>
    /\ insideComponent' = FALSE
    /\ componentName' = <<>>
    /\ componentStatus' = <<>>
    /\ pc' = "parse"
    /\ UNCHANGED <<Url, retIssues, retErr, resultVars, closed>>

---------------------------------------------------------------------------
(* parseInstatusHTML                                                       *)

\* The value of the first class attribute of a tag, "" when it has none.
RECURSIVE ClassOf(_)
ClassOf(attr) ==
    IF attr = <<>> THEN <<>>
    ELSE IF Head(attr).key = "class" THEN Head(attr).val
    ELSE ClassOf(Tail(attr))

\* The chain with the specific markers tested before the generic one.
ClassBranchSpecificFirst(class) ==
    IF Contains(class, NameMarker) THEN "name"
    ELSE IF Contains(class, StatusMarker) THEN "status"
    ELSE IF Contains(class, Generic) THEN "generic"
    ELSE "none"

\* The chain with the status marker tested first.
ClassBranchStatusFirst(class) ==
    IF Contains(class, StatusMarker) THEN "status"
    ELSE IF Contains(class, Generic) THEN "generic"
    ELSE IF Contains(class, NameMarker) THEN "name"
    ELSE "none"

\* The chain with the name marker tested first.
ClassBranchNameFirst(class) ==
    IF Contains(class, NameMarker) THEN "name"
    ELSE IF Contains(class, Generic) THEN "generic"
    ELSE IF Contains(class, StatusMarker) THEN "status"
    ELSE "none"

\* The branch of the if / else-if chain a class value selects.
ClassBranch(class) ==
    IF Contains(class, Generic) THEN "generic"
    ELSE IF Contains(class, NameMarker) THEN "name"
    ELSE IF Contains(class, StatusMarker) THEN "status"
    ELSE "none"

\* The locals of parseInstatusHTML, with the tokenizer's position.
Locals ==
    [pos |-> pos, issues |-> issues, insideComponent |-> insideComponent,
     componentName |-> componentName, componentStatus |-> componentStatus]

\* The div branch with the generic test taken only outside a component, so
\* that the marker branches run inside one.
DivTagGated(t, b, l) ==
    LET class == ClassOf(t.attr) IN
    IF Contains(class, Generic) /\ ~l.insideComponent THEN
        [l EXCEPT !.insideComponent = TRUE]
    ELSE IF Contains(class, NameMarker) THEN
        [l EXCEPT !.pos = Advance(b, l.pos),
                  !.componentName = TrimSpace(UnescapeString(NextText(b, l.pos)))]
    ELSE IF Contains(class, StatusMarker) THEN
        LET status == TrimSpace(UnescapeString(NextText(b, l.pos))) IN
        [l EXCEPT !.pos = Advance(b, l.pos),
                  !.issues = IF status # <<"Operational">>
                             THEN Append(l.issues, FormatIssue(l.componentName, status))
                             ELSE l.issues,
                  !.componentName = <<>>,
                  !.componentStatus = <<>>]
    ELSE l

\* The body of `if t.Data == "div"`, for the tag t just delivered from b;
\* l holds the locals, l.pos counting t.
DivTag(t, b, l) ==
    LET branch == ClassBranch(ClassOf(t.attr)) IN
    IF branch = "generic" THEN
        [l EXCEPT !.insideComponent = TRUE]
    ELSE IF branch = "name" THEN
        [l EXCEPT !.pos = Advance(b, l.pos),
                  !.componentName = TrimSpace(UnescapeString(NextText(b, l.pos)))]
    ELSE IF branch = "status" THEN
        LET status == TrimSpace(UnescapeString(NextText(b, l.pos))) IN
        [l EXCEPT !.pos = Advance(b, l.pos),
                  !.issues = IF status # <<"Operational">>
                             THEN Append(l.issues, FormatIssue(l.componentName, status))
                             ELSE l.issues,
                  !.componentName = <<>>,
                  !.componentStatus = <<>>]
    ELSE l

\* The start tag case without the test of the element's name.
StartTagCaseAnyElement(t, b, l) == DivTag(t, b, l)

\* case html.StartTagToken, html.SelfClosingTagToken
StartTagCase(t, b, l) == IF t.data = "div" THEN DivTag(t, b, l) ELSE l

\* The EndTagToken case without the test of the element's name.
EndTagCaseAnyElement(t, l) ==
    IF l.insideComponent
    THEN [l EXCEPT !.insideComponent = FALSE]
    ELSE l

\* case html.EndTagToken
EndTagCase(t, l) ==
    IF l.insideComponent /\ t.data = "div"
    THEN [l EXCEPT !.insideComponent = FALSE]
    ELSE l

\* The ErrorToken case with the io.EOF test inverted.
ErrorTokenCaseInverted(zerr, l) ==
    IF zerr # "EOF"
    THEN [issues |-> l.issues, err |-> "nil"]
    ELSE [issues |-> <<>>, err |-> zerr]

\* The ErrorToken case taking every error for the end of the stream.
ErrorTokenCaseNoError(zerr, l) == [issues |-> l.issues, err |-> "nil"]

\* The ErrorToken case without the io.EOF test: every end is an error.
ErrorTokenCaseAlwaysError(zerr, l) == [issues |-> <<>>, err |-> zerr]

\* case html.ErrorToken: what parseInstatusHTML returns.
ErrorTokenCase(zerr, l) ==
    IF zerr = "EOF"
    THEN [issues |-> l.issues, err |-> "nil"]
    ELSE [issues |-> <<>>, err |-> zerr]

SetLocals(l) ==
    /\ pos' = l.pos
    /\ issues' = l.issues
    /\ insideComponent' = l.insideComponent
    /\ componentName' = l.componentName
    /\ componentStatus' = l.componentStatus

\* One iteration of the loop whose z.Next() delivers a start or
\* self-closing tag.
ParseStartTag ==
    /\ pc = "parse"
    /\ NextType(body, pos) \in {"StartTag", "SelfClosingTag"}
    /\ SetLocals(StartTagCase(body[pos + 1], body, [Locals EXCEPT !.pos = Advance(body, pos)]))
    /\ UNCHANGED <<Url, pc, body, ending, statusCode, retIssues, retErr, resultVars,
                   fetched, parsed, closed>>

\* One iteration of the loop whose z.Next() delivers an end tag.
ParseEndTag ==
    /\ pc = "parse"
    /\ NextType(body, pos) = "EndTag"
    /\ SetLocals(EndTagCase(body[pos + 1], [Locals EXCEPT !.pos = Advance(body, pos)]))
    /\ UNCHANGED <<Url, pc, body, ending, statusCode, retIssues, retErr, resultVars,
                   fetched, parsed, closed>>

\* One iteration of the loop whose z.Next() delivers a token no case of the
\* switch names (text, comment, doctype).
ParseOtherToken ==
    /\ pc = "parse"
    /\ NextType(body, pos) \in {"Text", "Comment", "Doctype"}
    /\ pos' = Advance(body, pos)
    /\ UNCHANGED <<Url, pc, body, ending, statusCode, issues, insideComponent,
                   componentName, componentStatus, retIssues, retErr, resultVars,
                   fetched, parsed, closed>>

\* The ErrorToken case returning on io.EOF alone: after another error the
\* loop runs on, and z.Next() delivers ErrorToken again without end.
ParseErrorTokenEOFOnly ==
    /\ pc = "parse"
    /\ NextType(body, pos) = "ErrorToken"
    /\ ZErr(ending) = "EOF"
    /\ retIssues' = issues
    /\ retErr' = "nil"
    /\ pc' = "report"
    /\ UNCHANGED <<Url, body, ending, statusCode, parserVars, resultVars,
                   fetched, parsed, closed>>

\* The iteration whose z.Next() delivers ErrorToken: parseInstatusHTML returns.
ParseErrorToken ==
    /\ pc = "parse"
    /\ NextType(body, pos) = "ErrorToken"
    /\ LET r == ErrorTokenCase(ZErr(ending), Locals) IN
         /\ retIssues' = r.issues
         /\ retErr' = r.err
    /\ pc' = "report"
    /\ UNCHANGED <<Url, body, ending, statusCode, parserVars, resultVars,
                   fetched, parsed, closed>>

---------------------------------------------------------------------------
(* executeCheck: after parseInstatusHTML returns                           *)

\* fmt.Printf(" - %s\n", issue) for each issue, in order.
RECURSIVE PrintIssues(_)
PrintIssues(is) ==
    IF is = <<>> THEN <<>> ELSE << <<" - ">> \o Head(is) >> \o PrintIssues(Tail(is))

\* executeCheck with len(issues) >= 0 for len(issues) > 0.
ReportOffByOne(is, perr) ==
    IF perr # "nil" THEN
        [state |-> CheckStateCritical, err |-> "error parsing HTML: " \o perr,
         stdout |-> <<>>]
    ELSE IF Len(is) >= 0 THEN
        [state |-> CheckStateCritical, err |-> "nil",
         stdout |-> << <<"Non-operational components:">> >> \o PrintIssues(is)]
    ELSE
        [state |-> CheckStateOK, err |-> "nil",
         stdout |-> << <<"All components operational.">> >>]

\* The severity, error and printed lines of executeCheck for the results
\* of parseInstatusHTML.
Report(is, perr) ==
    IF perr # "nil" THEN
        [state |-> CheckStateCritical, err |-> "error parsing HTML: " \o perr,
         stdout |-> <<>>]
    ELSE IF Len(is) > 0 THEN
        [state |-> CheckStateCritical, err |-> "nil",
         stdout |-> << <<"Non-operational components:">> >> \o PrintIssues(is)]
    ELSE
        [state |-> CheckStateOK, err |-> "nil",
         stdout |-> << <<"All components operational.">> >>]

\* executeCheck with res.Body.Close() called at the end of the function
\* instead of deferred: the return on a parse error skips it.
ExecuteCheckReturnNoDefer ==
    /\ pc = "report"
    /\ LET r == Report(retIssues, retErr) IN
         /\ state' = r.state
         /\ err' = r.err
         /\ stdout' = stdout \o r.stdout
    /\ closed' = IF retErr = "nil" THEN closed + 1 ELSE closed
    /\ pc' = "done"
    /\ UNCHANGED <<Url, body, ending, statusCode, parserVars, retIssues, retErr,
                   fetched, parsed>>

\* executeCheck returns; the deferred res.Body.Close() runs.
ExecuteCheckReturn ==
    /\ pc = "report"
    /\ LET r == Report(retIssues, retErr) IN
         /\ state' = r.state
         /\ err' = r.err
         /\ stdout' = stdout \o r.stdout
    /\ closed' = closed + 1
    /\ pc' = "done"
    /\ UNCHANGED <<Url, body, ending, statusCode, parserVars, retIssues, retErr,
                   fetched, parsed>>

Next ==
    \/ CheckArgs
    \/ FetchFail
    \/ FetchOK
    \/ ParseStartTag
    \/ ParseEndTag
    \/ ParseOtherToken
    \/ ParseErrorToken
    \/ ExecuteCheckReturn

Spec == Init /\ [][Next]_vars

\* The invocation is one sequential thread of control: while a step is
\* possible, it is taken.
FairSpec == Spec /\ WF_vars(Next)

---------------------------------------------------------------------------
(* What the documents hold, for stating the properties                     *)

\* parseInstatusHTML has returned.
ParseReturned == parsed = 1 /\ pc \in {"report", "done"}

\* Token i of b is a div start or self-closing tag marked with m.
MarkedDiv(b, i, m) ==
    /\ i \in 1..Len(b)
    /\ b[i].type \in {"StartTag", "SelfClosingTag"}
    /\ b[i].data = "div"
    /\ Contains(ClassOf(b[i].attr), m)

\* The trimmed, decoded text that follows token i of b.
TextAfter(b, i) ==
    IF i < Len(b) /\ b[i + 1].type = "Text"
    THEN TrimSpace(UnescapeString(b[i + 1].text))
    ELSE <<>>

\* The positions of the status elements of b whose text is not "Operational".
NonOperational(b) ==
    { i \in 1..Len(b) : MarkedDiv(b, i, StatusMarker) /\ TextAfter(b, i) # <<"Operational">> }

\* The positions of the status elements of b.
StatusElements(b) == { i \in 1..Len(b) : MarkedDiv(b, i, StatusMarker) }

\* Every name or status marker of b is followed by its text.
WellFormedMarkers(b) ==
    \A i \in 1..Len(b) :
        (MarkedDiv(b, i, NameMarker) \/ MarkedDiv(b, i, StatusMarker))
            => i < Len(b) /\ b[i + 1].type = "Text"

\* b[i..i+5] is a well-formed pair: a name element, then a status element.
PairAt(b, i) ==
    /\ i + 5 <= Len(b)
    /\ MarkedDiv(b, i, NameMarker) /\ ~MarkedDiv(b, i, StatusMarker)
    /\ b[i + 1].type = "Text"
    /\ b[i + 2] = EndDiv
    /\ MarkedDiv(b, i + 3, StatusMarker)
    /\ b[i + 4].type = "Text"
    /\ b[i + 5] = EndDiv

\* b is a sequence of well-formed pairs and nothing else.
PairsOnly(b) ==
    /\ Len(b) % 6 = 0
    /\ \A k \in 0..((Len(b) \div 6) - 1) : PairAt(b, 6 * k + 1)

\* The issues of a document of well-formed pairs, first pair first.
RECURSIVE PairIssues(_)
PairIssues(b) ==
    IF Len(b) < 6 THEN <<>>
    ELSE (IF TextAfter(b, 4) # <<"Operational">>
          THEN << FormatIssue(TextAfter(b, 1), TextAfter(b, 4)) >>
          ELSE <<>>) \o PairIssues(SubSeq(b, 7, Len(b)))

\* The number of elements of sequence s equal to x.
Count(s, x) == Cardinality({ i \in 1..Len(s) : s[i] = x })

\* The i-th smallest element of a set of numbers.
RECURSIVE Nth(_, _)
Nth(S, i) ==
    LET m == CHOOSE x \in S : \A y \in S : x <= y IN
    IF i = 1 THEN m ELSE Nth(S \ {m}, i - 1)

---------------------------------------------------------------------------
(* Properties                                                              *)

\* C1: for a document of well-formed name / status pairs that ends cleanly,
\* parseInstatusHTML returns one issue "<name>: <status>" for each pair whose
\* status is not "Operational" and none for a pair whose status is.
C1_PairIssues ==
    (ParseReturned /\ ZErr(ending) = "EOF" /\ PairsOnly(body))
        => /\ retErr = "nil"
           /\ retIssues = PairIssues(body)

\* C2: a stream that ends cleanly and holds no status element whose trimmed,
\* decoded text differs from "Operational" yields no issue and a nil error.
C2_AllOperational ==
    (ParseReturned /\ ZErr(ending) = "EOF" /\ NonOperational(body) = {})
        => retIssues = <<>> /\ retErr = "nil"

\* C2 witness: a clean document with an "Operational" status element parsed.
C2_Witness ==
    /\ ParseReturned /\ ZErr(ending) = "EOF"
    /\ NonOperational(body) = {} /\ StatusElements(body) # {}
    /\ retIssues = <<>> /\ retErr = "nil"

\* C3: the issues returned follow the order of the non-Operational status
\* elements of the document (markers followed by their text), one issue per
\* element, none merged or dropped.
C3_DocumentOrder ==
    (ParseReturned /\ ZErr(ending) = "EOF" /\ WellFormedMarkers(body))
        => /\ Len(retIssues) = Cardinality(NonOperational(body))
           /\ \A k \in 1..Len(retIssues) :
                LET st == TextAfter(body, Nth(NonOperational(body), k))
                    is == retIssues[k]
                IN  /\ Len(is) > Len(st)
                    /\ SubSeq(is, Len(is) - Len(st) + 1, Len(is)) = st
                    /\ is[Len(is) - Len(st)] = ": "

\* C4: when the tokenizer reports an error other than end-of-stream,
\* parseInstatusHTML returns that error and no issues; an error never comes
\* with issues.
C4_ErrorDropsIssues ==
    ParseReturned
        => /\ (ZErr(ending) # "EOF" => retErr # "nil" /\ retIssues = <<>>)
           /\ ~(retErr # "nil" /\ retIssues # <<>>)

\* C4 witness: a read error after a document with a non-Operational status.
C4_Witness ==
    /\ ParseReturned /\ ZErr(ending) # "EOF"
    /\ NonOperational(body) # {}
    /\ retErr = "unexpected EOF" /\ retIssues = <<>>

\* C5 as stated: a stream cut off in the middle of a tag yields a non-nil
\* error and no issues.
C5_TruncatedIsError ==
    (ParseReturned /\ ending.partial) => retErr # "nil" /\ retIssues = <<>>

\* C5 amended: a stream cut off in the middle of a tag yields a non-nil error
\* (and no issues) exactly when the reader reports an error other than
\* io.EOF; when the reader reports io.EOF the cut is a clean end-of-stream,
\* which returns the accumulated issues and a nil error.
C5_TruncatedFollowsReader ==
    (ParseReturned /\ ending.partial)
        => /\ (retErr # "nil") <=> (ending.readErr # "EOF")
           /\ retErr # "nil" => retIssues = <<>>
           /\ retErr = "nil" => retIssues = issues

\* C5 witness: a stream cut mid-tag whose reader reports io.EOF was parsed
\* to the end without an error.
C5_Witness ==
    /\ ParseReturned /\ ending.partial /\ ending.readErr = "EOF"
    /\ body # <<>> /\ pos = Len(body)
    /\ retErr = "nil"

\* C6: executeCheck returns OK, having printed "All components operational.",
\* exactly when the fetch and the parse succeed and there is no issue; it
\* returns Critical and a nil error, having printed each issue once, in
\* order, prefixed " - ", when there are issues; it returns Critical and a
\* wrapped error when the fetch or the parse fails.
C6_SeverityMapping ==
    (pc = "done" /\ fetched = 1)
        => LET ok == parsed = 1 /\ retErr = "nil" IN
           /\ (state = CheckStateOK) <=> (ok /\ retIssues = <<>>)
           /\ state = CheckStateOK
                => err = "nil" /\ stdout = << <<"All components operational.">> >>
           /\ (ok /\ retIssues # <<>>)
                => /\ state = CheckStateCritical
                   /\ err = "nil"
                   /\ Len(stdout) = Len(retIssues) + 1
                   /\ \A i \in 1..Len(retIssues) : stdout[i + 1] = <<" - ">> \o retIssues[i]
           /\ parsed = 0
                => /\ state = CheckStateCritical
                   /\ err \in {"error fetching status page: " \o e : e \in TransportErrors}
           /\ (parsed = 1 /\ retErr # "nil")
                => /\ state = CheckStateCritical
                   /\ err = "error parsing HTML: " \o retErr

\* C6 witness: an invocation that fetched and parsed a document with status
\* elements, found no issue and reported OK.
C6_Witness ==
    /\ pc = "done" /\ parsed = 1
    /\ StatusElements(body) # {}
    /\ retErr = "nil" /\ retIssues = <<>>
    /\ state = CheckStateOK
    /\ stdout = << <<"All components operational.">> >>

\* C7: with an empty URL the invocation signals Warning with checkArgs'
\* error, and neither fetches nor parses; with a non-empty URL checkArgs
\* returns OK and no error, and executeCheck runs.
C7_ConfigurationFirst ==
    /\ Url = ""
        => /\ fetched = 0 /\ parsed = 0 /\ closed = 0
           /\ pc \in {"checkArgs", "done"}
           /\ pc = "done" => state = CheckStateWarning /\ err # "nil"
    /\ Url # ""
        => /\ checkArgs(Url) = [state |-> CheckStateOK, err |-> "nil"]
           /\ state # CheckStateWarning
           /\ pc = "done" => fetched = 1

\* C7 witness: an invocation without URL has ended with Warning, nothing
\* fetched.
C7_Witness ==
    /\ Url = "" /\ pc = "done"
    /\ state = CheckStateWarning
    /\ err = "--url or STATUS_PAGE_URL environment variable is required"
    /\ fetched = 0 /\ parsed = 0

\* C8: a non-Operational status element with no name element before it
\* yields the issue ": <status>".
C8_EmptyName ==
    (ParseReturned /\ ZErr(ending) = "EOF" /\ body = StatusOnly(<<"MINOR">>))
        => retIssues = << <<": ", "MINOR">> >>

\* C9: name and status are trimmed and entity-decoded before the compare
\* and the formatting: a status that is "Operational" once trimmed and
\* decoded yields no issue, and an issue holds the trimmed, decoded texts.
C9_TrimmedDecoded ==
    (ParseReturned /\ ZErr(ending) = "EOF" /\ Len(body) = 6 /\ PairAt(body, 1)
       /\ TrimSpace(UnescapeString(body[5].text)) # body[5].text)
        => LET n == TrimSpace(UnescapeString(body[2].text))
               st == TrimSpace(UnescapeString(body[5].text))
           IN  IF st = <<"Operational">>
               THEN retIssues = <<>>
               ELSE retIssues = << n \o <<": ">> \o st >>

\* The div start or self-closing tag the next iteration delivers has a class
\* holding "component".
AtComponentDiv ==
    /\ pc = "parse"
    /\ NextType(body, pos) \in {"StartTag", "SelfClosingTag"}
    /\ body[pos + 1].data = "div"
    /\ Contains(ClassOf(body[pos + 1].attr), Generic)

\* C10: a div whose class holds "component" takes the generic branch alone:
\* the iteration sets insideComponent, leaves componentName, componentStatus
\* and the issues as they were and consumes no token after the tag; a step
\* that consumes a second token or touches the record is not at such a div.
C10_PriorityChain ==
    [][ /\ AtComponentDiv
            => /\ insideComponent'
               /\ componentName' = componentName
               /\ componentStatus' = componentStatus
               /\ issues' = issues
               /\ pos' = pos + 1
        /\ (pc = "parse" /\ (pos' > pos + 1 \/ componentName' # componentName
                                \/ issues' # issues))
            => ~AtComponentDiv ]_vars

\* C10 witness: the first token, a div marked "component-status", has been
\* handled: the marker is set, the text after the tag is still to come and
\* nothing was recorded.
C10_Witness ==
    /\ pc = "parse" /\ pos = 1
    /\ MarkedDiv(body, 1, StatusMarker)
    /\ Len(body) > 1 /\ body[2] = Text(<<"MINOR">>)
    /\ insideComponent
    /\ issues = <<>> /\ componentName = <<>>

\* C11: the issue list, componentName and componentStatus are empty in every
\* state: a class holding "component-name" or "component-status" holds
\* "component", so the name and status branches never run, and every return
\* of parseInstatusHTML carries no issue.
C11_NeverAnIssue ==
    /\ issues = <<>>
    /\ componentName = <<>>
    /\ componentStatus = <<>>
    /\ retIssues = <<>>
    /\ pc = "done" => Len(stdout) <= 1

\* C11 witness: a clean document of well-formed elements with a
\* non-Operational status was parsed to the end and no issue returned.
C11_Witness ==
    /\ ParseReturned /\ ZErr(ending) = "EOF"
    /\ WellFormedMarkers(body) /\ NonOperational(body) # {}
    /\ retErr = "nil" /\ retIssues = <<>>
    /\ insideComponent

\* A status marker div is the token the next iteration delivers.
AtStatusMarker == pc = "parse" /\ MarkedDiv(body, pos + 1, StatusMarker)

\* C12: right after the iteration that handles a status marker,
\* componentName and componentStatus are both empty, so no name captured for
\* one record reaches the issue of a later one.
C12_RecordReset ==
    [][ AtStatusMarker => componentName' = <<>> /\ componentStatus' = <<>> ]_vars

\* C12 witness: the status marker that follows a name element has just been
\* handled, and no name is held.
C12_Witness ==
    /\ pc = "parse" /\ pos >= 4
    /\ MarkedDiv(body, pos, StatusMarker)
    /\ MarkedDiv(body, pos - 3, NameMarker) /\ body[pos - 2].type = "Text"
    /\ componentName = <<>> /\ componentStatus = <<>>

\* Two component divs were opened, one inside the other, and a single div
\* end tag has just been handled: the outer component div is still open.
NestedOuterOpen ==
    /\ pc = "parse" /\ pos = 3
    /\ MarkedDiv(body, 1, Generic) /\ MarkedDiv(body, 2, Generic)
    /\ body[3] = EndDiv

\* C13: insideComponent is one flag, not a depth: a div start or
\* self-closing tag whose class holds "component" sets it, the next div end
\* tag clears it, so it is false after two nested opens and one close; an
\* end tag of another element, or a div end tag while it is false, leaves it
\* as it was.
C13_FlatMarker ==
    /\ [](NestedOuterOpen => ~insideComponent)
    /\ [][ (pc = "parse" /\ pos < Len(body))
              => LET t == body[pos + 1] IN
                 /\ MarkedDiv(body, pos + 1, Generic) => insideComponent'
                 /\ (t.type = "EndTag" /\ t.data = "div") => ~insideComponent'
                 /\ (t.type = "EndTag" /\ t.data # "div")
                      => insideComponent' = insideComponent
                 /\ (t.type = "EndTag" /\ ~insideComponent) => ~insideComponent' ]_vars

\* C13 witness: the marker is false with the outer component div still open.
C13_Witness == NestedOuterOpen /\ ~insideComponent

\* C13 witness of the frame: a span end tag was handled inside a component
\* div and the marker is still set.
C13_SpanEndKeepsMarker ==
    /\ pc = "parse" /\ pos >= 2
    /\ body[pos].type = "EndTag" /\ body[pos].data = "span"
    /\ insideComponent

\* The locals l with the containment marker inverted.
Flip(l) == [l EXCEPT !.insideComponent = ~l.insideComponent]

\* What of the locals can reach the results: everything but the marker.
Visible(l) ==
    [pos |-> l.pos, issues |-> l.issues, componentName |-> l.componentName,
     componentStatus |-> l.componentStatus]

\* C14: the containment marker never gates emission.  In every state of the
\* loop, the iteration started with the marker inverted consumes the same
\* tokens, leaves the same issues, name and status and returns the same
\* issues and error; so by induction over the stream the results do not
\* depend on the marker.  Only a div end tag reads it: every other token
\* either sets it or passes it on as it was.
C14_MarkerDoesNotGate ==
    pc = "parse"
        => LET l == [Locals EXCEPT !.pos = Advance(body, pos)]
               ty == NextType(body, pos)
           IN  /\ ty \in {"StartTag", "SelfClosingTag"}
                    => LET a == StartTagCase(body[pos + 1], body, l)
                           f == StartTagCase(body[pos + 1], body, Flip(l))
                       IN  /\ Visible(a) = Visible(f)
                           /\ \/ a.insideComponent /\ f.insideComponent
                              \/ /\ a.insideComponent = l.insideComponent
                                 /\ f.insideComponent = ~l.insideComponent
               /\ ty = "EndTag"
                    => Visible(EndTagCase(body[pos + 1], l))
                           = Visible(EndTagCase(body[pos + 1], Flip(l)))
               /\ ty = "ErrorToken"
                    => ErrorTokenCase(ZErr(ending), l) = ErrorTokenCase(ZErr(ending), Flip(l))

\* C14 witness: inside a component, the loop is about to handle the marker
\* of a non-Operational status element.
C14_Witness ==
    /\ pc = "parse" /\ insideComponent
    /\ pos + 1 \in NonOperational(body)
    /\ pos + 1 < Len(body) /\ body[pos + 2].type = "Text"

\* C15: parseInstatusHTML terminates on every finite token stream: the
\* loop is never stuck (a step is possible until the invocation is done),
\* every iteration that does not return consumes at least one token, the
\* tokenizer never moves past the end of the stream, and a clean
\* end-of-stream returns the accumulated issues and a nil error.  The
\* tokens left, Len(body) - pos, bound the number of iterations.
C15_Terminates ==
    /\ [](pc = "done" \/ ENABLED Next)
    /\ [][ (pc = "parse" /\ pc' = "parse") => pos' > pos ]_vars
    /\ [](pos <= Len(body))
    /\ []((ParseReturned /\ ZErr(ending) = "EOF")
            => retErr = "nil" /\ retIssues = issues /\ pos = Len(body))

\* C15, as a liveness property of the fair specification: once called,
\* parseInstatusHTML returns.
C15_EventuallyReturns == (pc = "parse") ~> ParseReturned

\* C15 witness: parseInstatusHTML has returned from a stream of several
\* tokens that ends with a marker div, all of them consumed.
C15_Witness ==
    /\ ParseReturned /\ ZErr(ending) = "EOF"
    /\ Len(body) >= 4 /\ pos = Len(body)
    /\ MarkedDiv(body, Len(body), StatusMarker)
    /\ retErr = "nil"

\* A name or status marker div is the token the next iteration delivers.
AtMarker ==
    /\ pc = "parse"
    /\ MarkedDiv(body, pos + 1, NameMarker) \/ MarkedDiv(body, pos + 1, StatusMarker)

\* C16: the iteration that handles a name or status marker also consumes the
\* one token that follows the marker, whatever its kind, so that the main
\* loop never dispatches that token.
C16_MarkerConsumesNext ==
    [][ AtMarker => pos' = (IF pos + 2 <= Len(body) THEN pos + 2 ELSE Len(body)) ]_vars

\* Token t is markup the parser does not recognize: a start or self-closing
\* tag of another element than div, a div whose first class attribute is
\* absent or holds none of the three substrings, or text, comment, doctype.
Unrecognized(t) ==
    \/ t.type \in {"Text", "Comment", "Doctype"}
    \/ /\ t.type \in {"StartTag", "SelfClosingTag"}
       /\ \/ t.data # "div"
          \/ /\ ~Contains(ClassOf(t.attr), Generic)
             /\ ~Contains(ClassOf(t.attr), NameMarker)
             /\ ~Contains(ClassOf(t.attr), StatusMarker)

\* C17: an iteration on unrecognized markup consumes that token and leaves
\* insideComponent, componentName, componentStatus and the issues as they
\* were.
C17_UnrecognizedIgnored ==
    [][ (pc = "parse" /\ pos < Len(body) /\ Unrecognized(body[pos + 1]))
            => /\ pos' = pos + 1
               /\ UNCHANGED <<insideComponent, componentName, componentStatus, issues>> ]_vars

\* C17 witness: a span marked "component-status" was the first token and has
\* been handled; the containment marker is still false.
C17_Witness ==
    /\ pc = "parse" /\ pos = 1
    /\ body[1].type = "StartTag" /\ body[1].data = "span"
    /\ Contains(ClassOf(body[1].attr), StatusMarker)
    /\ ~insideComponent /\ issues = <<>>

\* http.Get has returned a response.
Responded == statusCode # 0

\* C18: when the fetch succeeds the body is closed exactly once, as
\* executeCheck returns, whatever the parse gave; it is not closed before,
\* and when the fetch fails nothing is closed or parsed.
C18_BodyClosedOnce ==
    /\ closed <= 1
    /\ (Responded /\ pc = "done") => closed = 1 /\ parsed = 1
    /\ (Responded /\ pc # "done") => closed = 0
    /\ ~Responded => closed = 0 /\ parsed = 0

\* C18 witness: executeCheck has returned after a parse error, the body
\* closed once.
C18_Witness ==
    /\ pc = "done" /\ Responded
    /\ retErr # "nil" /\ state = CheckStateCritical
    /\ closed = 1

\* The errors executeCheck returns for a failed fetch.
FetchErrors == {"error fetching status page: " \o e : e \in TransportErrors}

\* C19: a response is parsed whatever its status code, and the severity
\* follows from the parse result alone: no error and no issue gives OK,
\* also for an error page, anything else Critical; the fetch error is
\* returned only when the transport failed; nothing is fetched or parsed
\* twice.
C19_StatusCodeIgnored ==
    /\ fetched <= 1 /\ parsed <= 1
    /\ Responded => parsed = 1
    /\ (Responded /\ pc = "done")
        => /\ state = (IF retErr = "nil" /\ retIssues = <<>>
                       THEN CheckStateOK ELSE CheckStateCritical)
           /\ err = (IF retErr = "nil" THEN "nil" ELSE "error parsing HTML: " \o retErr)
    /\ pc = "done" => ((err \in FetchErrors) <=> (fetched = 1 /\ ~Responded))
    /\ pc = "done" => (err \notin FetchErrors => (Url = "" \/ Responded))

\* C19 witness: a 503 page without a non-operational component was parsed
\* and the invocation reported OK.
C19_Witness ==
    /\ pc = "done" /\ statusCode = 503
    /\ fetched = 1 /\ parsed = 1
    /\ NonOperational(body) = {}
    /\ state = CheckStateOK /\ err = "nil"

====
